---- MODULE Spec2Model ----
(***************************************************************************)
(* Receipt field extraction and batch aggregation of                       *)
(* gumloop_uber_recipts_processing: extract_uber_data.py (the lenient      *)
(* extractor) and process_uber_receipts.py (the strict extractors).        *)
(*                                                                         *)
(* Text is a sequence of one-character strings.  The Swedish letters and   *)
(* the currency signs outside ASCII are written by name: "a_ring",         *)
(* "a_uml", "o_uml", "A_ring", "A_uml", "O_uml", "euro", "pound"; each is  *)
(* one character of the text.  Python's None is NoneVal for text values    *)
(* and NoneCost for numbers.  A float is the pair <<n, e>> standing for    *)
(* n / 10^e with no trailing zero in the fraction, so two amount texts     *)
(* denote the same number exactly when their pairs are equal.              *)
(***************************************************************************)
EXTENDS Integers, Sequences, FiniteSets, TLC

VARIABLES
    mode,             \* the function the caller calls
    input,            \* the argument `emails` as passed by the caller
    emails,           \* `emails` after the string handling of lines 51-84
    idx,              \* number of records the for loop has consumed
    dates,
    passenger_names,
    costs,
    currencies,
    pc,               \* "start", "loop", "call", "returned", "raised"
    error,            \* message of the ValueError raised to the caller
    last,             \* what the loop body did with the latest record
    date_str,         \* argument of a direct convert_swedish_date_to_iso call
    date_iso          \* its result

vars == <<mode, input, emails, idx, dates, passenger_names, costs,
          currencies, pc, error, last, date_str, date_iso>>

----------------------------------------------------------------------------
(* Bounds of the model. *)

MaxEmails == 2
MaxSegments == 2

----------------------------------------------------------------------------
(* Characters and Python's str methods. *)

NoneVal == <<"None">>
NoneCost == <<>>

DigitChars == <<"0","1","2","3","4","5","6","7","8","9">>
UpperChars == <<"A","B","C","D","E","F","G","H","I","J","K","L","M","N","O",
                "P","Q","R","S","T","U","V","W","X","Y","Z",
                "A_ring","A_uml","O_uml">>
LowerChars == <<"a","b","c","d","e","f","g","h","i","j","k","l","m","n","o",
                "p","q","r","s","t","u","v","w","x","y","z",
                "a_ring","a_uml","o_uml">>

Range(f) == {f[i] : i \in DOMAIN f}

\* \d
Digit == Range(DigitChars)
\* \s, and the characters str.strip() and str.split() treat as blank
Space == {" ", "\n", "\t"}
\* [a-zA-ZåäöÅÄÖ]
SwedishLetter == Range(UpperChars) \cup Range(LowerChars)
\* [A-Za-z]
AsciiLetter == SwedishLetter \ {"a_ring","a_uml","o_uml","A_ring","A_uml","O_uml"}
\* [\d\.,]
AmountChar == Digit \cup {".", ","}
\* [A-Za-z$€£]
CurrencyChar == AsciiLetter \cup {"$", "euro", "pound"}

\* str.lower() on one character
LowerChar(c) ==
    IF \E i \in DOMAIN UpperChars : UpperChars[i] = c
    THEN LowerChars[CHOOSE i \in DOMAIN UpperChars : UpperChars[i] = c]
    ELSE c

\* str.lower()
Lower(s) == [i \in DOMAIN s |-> LowerChar(s[i])]

\* a cost_str that keeps its commas
ReplaceNothing(s) == s

\* str.replace(',', '.')
ReplaceCommaWithDot(s) == [i \in DOMAIN s |-> IF s[i] = "," THEN "." ELSE s[i]]

\* the end of the longest run of characters of class C that starts at i:
\* the index of the first character at or after i that is not in C
RECURSIVE RunEnd(_, _, _)
RunEnd(s, i, C) ==
    IF i <= Len(s) /\ s[i] \in C THEN RunEnd(s, i + 1, C) ELSE i

\* the literal w stands in s at index i
StartsWithAt(s, i, w) ==
    /\ i >= 1
    /\ i + Len(w) - 1 <= Len(s)
    /\ \A k \in 1..Len(w) : s[i + k - 1] = w[k]

\* str.strip()
Strip(s) ==
    LET a == RunEnd(s, 1, Space)
        NonBlank == {i \in a..Len(s) : s[i] \notin Space}
        b == IF NonBlank = {} THEN a - 1
             ELSE CHOOSE i \in NonBlank : \A j \in NonBlank : j <= i
    IN SubSeq(s, a, b)

\* the end of the run of non-blank characters that starts at i
RECURSIVE WordEnd(_, _)
WordEnd(s, i) ==
    IF i <= Len(s) /\ s[i] \notin Space THEN WordEnd(s, i + 1) ELSE i

\* str.split() with no argument, from index i on
RECURSIVE SplitFrom(_, _)
SplitFrom(s, i) ==
    LET a == RunEnd(s, i, Space)
        b == WordEnd(s, a)
    IN IF a > Len(s) THEN <<>>
       ELSE <<SubSeq(s, a, b - 1)>> \o SplitFrom(s, b)

Split(s) == SplitFrom(s, 1)

\* a day that is not padded
ZFill2Missing(s) == s

\* str.zfill(2): zeros on the left up to width 2, after a leading sign
ZFill2(s) ==
    IF Len(s) >= 2 THEN s
    ELSE IF s = <<>> THEN <<"0", "0">>
    ELSE IF s[1] \in {"+", "-"} THEN s \o <<"0">>
    ELSE <<"0">> \o s

----------------------------------------------------------------------------
(* float(cost_str), for a text of digits and dots. *)

DigitValue(c) == (CHOOSE i \in DOMAIN DigitChars : DigitChars[i] = c) - 1

RECURSIVE DigitsValue(_)
DigitsValue(s) ==
    IF s = <<>> THEN 0
    ELSE 10 * DigitsValue(SubSeq(s, 1, Len(s) - 1)) + DigitValue(s[Len(s)])

RECURSIVE StripTrailingZeros(_)
StripTrailingZeros(s) ==
    IF s # <<>> /\ s[Len(s)] = "0"
    THEN StripTrailingZeros(SubSeq(s, 1, Len(s) - 1))
    ELSE s

\* float() accepts the text: digits with at most one dot, at least one digit
FloatParses(s) ==
    /\ \A i \in DOMAIN s : s[i] \in Digit \cup {"."}
    /\ Cardinality({i \in DOMAIN s : s[i] = "."}) <= 1
    /\ \E i \in DOMAIN s : s[i] \in Digit

\* the number float() returns for a text it accepts
FloatValue(s) ==
    LET Dots == {i \in DOMAIN s : s[i] = "."}
        p == IF Dots = {} THEN Len(s) + 1 ELSE CHOOSE i \in Dots : TRUE
        whole == SubSeq(s, 1, p - 1)
        frac == StripTrailingZeros(SubSeq(s, p + 1, Len(s)))
    IN <<DigitsValue(whole \o frac), Len(frac)>>

----------------------------------------------------------------------------
(* convert_swedish_date_to_iso *)

swedish_months == <<
    <<"j","a","n","u","a","r","i">>, <<"f","e","b","r","u","a","r","i">>, <<"m","a","r","s">>, <<"a","p","r","i","l">>,
    <<"m","a","j">>, <<"j","u","n","i">>, <<"j","u","l","i">>, <<"a","u","g","u","s","t","i">>,
    <<"s","e","p","t","e","m","b","e","r">>, <<"o","k","t","o","b","e","r">>, <<"n","o","v","e","m","b","e","r">>, <<"d","e","c","e","m","b","e","r">> >>

\* the two-digit value the table gives the month at index i
MonthNumber(i) == <<DigitChars[(i \div 10) + 1], DigitChars[(i % 10) + 1]>>

convert_swedish_date_to_iso(s) ==
    IF s = <<>> \/ s = NoneVal THEN NoneVal
    ELSE LET parts == Split(Strip(s))
         IN IF Len(parts) # 3 THEN NoneVal
            ELSE LET day == ZFill2(parts[1])
                     month_swedish == Lower(parts[2])
                     year == parts[3]
                 IN IF \E i \in DOMAIN swedish_months :
                           swedish_months[i] = month_swedish
                    THEN year \o <<"-">>
                         \o MonthNumber(CHOOSE i \in DOMAIN swedish_months :
                                            swedish_months[i] = month_swedish)
                         \o <<"-">> \o day
                    ELSE NoneVal

----------------------------------------------------------------------------
(* The regular expressions.  re.search returns the leftmost match; in      *)
(* every pattern below adjacent pieces draw on disjoint character classes, *)
(* so at a given start the greedy runs are the only way to match.          *)

\* the text of s from index a to index b, empty when there is none
Slice(s, a, b) ==
    IF 1 <= a /\ a <= b /\ b <= Len(s) THEN SubSeq(s, a, b) ELSE <<>>

Min(I) == CHOOSE i \in I : \A j \in I : i <= j

\* the leftmost index of I, 0 when re.search finds no match
Leftmost(I) == IF I = {} THEN 0 ELSE Min(I)

Totalt == <<"T","o","t","a","l","t">>
Avbokningsavgift == <<"A","v","b","o","k","n","i","n","g","s","a","v","g","i","f","t">>

\* the keywords of total_pattern and date_pattern
LenientKeywords == {Totalt, Avbokningsavgift}
StrictKeywords == {Totalt}

\* <kw>\s+([\d\.,]+)\s+([A-Za-z$€£]+) at index i: whether it matches, where
\* the amount starts, the two groups and where the match ends
TotalSpans(body, i, kw) ==
    LET a == i + Len(kw)
        b == RunEnd(body, a, Space)
        c == RunEnd(body, b, AmountChar)
        d == RunEnd(body, c, Space)
        e == RunEnd(body, d, CurrencyChar)
    IN [ok |-> StartsWithAt(body, i, kw) /\ b > a /\ c > b /\ d > c /\ e > d,
        at |-> b,
        amount |-> Slice(body, b, c - 1),
        currency |-> Slice(body, d, e - 1),
        stop |-> e]

\* the indices where total_pattern matches: a keyword stands there and the
\* rest follows
TotalHits(body, kws) ==
    {i \in 1..Len(body) :
        \E kw \in kws : StartsWithAt(body, i, kw) /\ TotalSpans(body, i, kw).ok}

\* re.search(total_pattern, body): the groups of the leftmost match
TotalMatch(body, kws) ==
    LET i == Leftmost(TotalHits(body, kws))
    IN IF i = 0 THEN [ok |-> FALSE, at |-> 0, amount |-> <<>>, currency |-> <<>>, stop |-> 0]
       ELSE TotalSpans(body, i, CHOOSE kw \in kws : TotalSpans(body, i, kw).ok)

\* (\d+[\.,]?\d*)\s*([A-Za-z$€£]+) at index i
RelaxedSpans(body, i) ==
    LET d1 == RunEnd(body, i, Digit)
        s1 == IF d1 <= Len(body) /\ body[d1] \in {".", ","} THEN d1 + 1 ELSE d1
        d2 == RunEnd(body, s1, Digit)
        w == RunEnd(body, d2, Space)
        e == RunEnd(body, w, CurrencyChar)
    IN [ok |-> d1 > i /\ e > w,
        at |-> i,
        amount |-> Slice(body, i, d2 - 1),
        currency |-> Slice(body, w, e - 1),
        stop |-> e]

\* re.search(total_pattern2, body)
RelaxedMatch(body) ==
    LET i == Leftmost({j \in 1..Len(body) :
                          body[j] \in Digit /\ RelaxedSpans(body, j).ok})
    IN IF i = 0 THEN [ok |-> FALSE, at |-> 0, amount |-> <<>>, currency |-> <<>>, stop |-> 0]
       ELSE RelaxedSpans(body, i)

\* \d{1,2}\s+[a-zA-ZåäöÅÄÖ]+\s+\d{4} at index j
DateSpans(body, j) ==
    LET d == RunEnd(body, j, Digit)
        a == RunEnd(body, d, Space)
        m == RunEnd(body, a, SwedishLetter)
        b == RunEnd(body, m, Space)
        y == RunEnd(body, b, Digit)
    IN [ok |-> d - j \in {1, 2} /\ a > d /\ m > a /\ b > m /\ y - b >= 4,
        text |-> Slice(body, j, b + 3)]

\* date_pattern: the cost line followed by \s+ and a date
AnchoredDateSpans(body, i, kw) ==
    LET t == TotalSpans(body, i, kw)
        j == RunEnd(body, t.stop, Space)
        date == DateSpans(body, j)
    IN [ok |-> t.ok /\ j > t.stop /\ date.ok, text |-> date.text]

\* re.search(date_pattern, body): the date group of the leftmost match
AnchoredDateMatch(body, kws) ==
    LET i == Leftmost({j \in 1..Len(body) :
                          \E kw \in kws : /\ StartsWithAt(body, j, kw)
                                          /\ AnchoredDateSpans(body, j, kw).ok})
    IN IF i = 0 THEN [ok |-> FALSE, text |-> <<>>]
       ELSE AnchoredDateSpans(body, i,
                CHOOSE kw \in kws : AnchoredDateSpans(body, i, kw).ok)

\* re.search(general_date_pattern, body)
GeneralDateMatch(body) ==
    LET i == Leftmost({j \in 1..Len(body) :
                          body[j] \in Digit /\ DateSpans(body, j).ok})
    IN IF i = 0 THEN [ok |-> FALSE, text |-> <<>>] ELSE DateSpans(body, i)

----------------------------------------------------------------------------
(* Passenger patterns. *)

\* the roster; a Python set, so its iteration order is not fixed
family_members == {<<"F","r","e","d","r","i","k">>, <<"V","i","g","g","o">>, <<"A","g","n","e">>, <<"G","i","e","d","r","e">>,
                   <<"N","a","d","i","n","e">>, <<"L","e","o","n","a">>}

TackForAttDuReser == <<"T","a","c","k"," ","f","o_uml","r"," ","a","t","t"," ","d","u"," ","r","e","s","e","r",",">>
ViSesEnAnnanGang == <<"V","i"," ","s","e","s"," ","e","n"," ","a","n","n","a","n"," ","g","a_ring","n","g",",">>

LenientGreetings == {TackForAttDuReser, ViSesEnAnnanGang}
StrictGreetings == {TackForAttDuReser}

\* (?:reser|åker|färd|resa)
TravelWords == {<<"r","e","s","e","r">>, <<"a_ring","k","e","r">>, <<"f","a_uml","r","d">>, <<"r","e","s","a">>}
\* (?:resa|tur)
TripWords == {<<"r","e","s","a">>, <<"t","u","r">>}

\* <greeting>\s+([A-Za-zåäöÅÄÖ]+) at index i
GreetingSpans(body, i, phrase) ==
    LET a == i + Len(phrase)
        b == RunEnd(body, a, Space)
        c == RunEnd(body, b, SwedishLetter)
    IN [ok |-> StartsWithAt(body, i, phrase) /\ b > a /\ c > b,
        name |-> Slice(body, b, c - 1)]

\* re.search(passenger_pattern, body)
GreetingMatch(body, phrases) ==
    LET i == Leftmost({j \in 1..Len(body) :
                          \E ph \in phrases : /\ StartsWithAt(body, j, ph)
                                              /\ GreetingSpans(body, j, ph).ok})
    IN IF i = 0 THEN [ok |-> FALSE, name |-> <<>>]
       ELSE GreetingSpans(body, i,
                CHOOSE ph \in phrases : GreetingSpans(body, i, ph).ok)

\* Tack\s+{name}!
TackNameMatches(body, name) ==
    \E i \in 1..Len(body) :
        /\ StartsWithAt(body, i, <<"T","a","c","k">>)
        /\ LET b == RunEnd(body, i + 4, Space)
           IN b > i + 4 /\ StartsWithAt(body, b, name \o <<"!">>)

\* {name}s\s+(?:resa|tur)
PossessiveNameMatches(body, name) ==
    \E i \in 1..Len(body) :
        /\ StartsWithAt(body, i, name \o <<"s">>)
        /\ LET a == i + Len(name) + 1
               b == RunEnd(body, a, Space)
           IN b > a /\ \E w \in TripWords : StartsWithAt(body, b, w)

\* the commas j that `.*?,` can stop at after a travel word ending before a:
\* no line break between a and j
CommasAfter(body, a) ==
    {j \in a..Len(body) :
        body[j] = "," /\ \A k \in a..(j - 1) : body[k] # "\n"}

\* (?:reser|åker|färd|resa).*?,\s+{name}
TravelNameMatches(body, name) ==
    \E i \in 1..Len(body) : \E w \in TravelWords :
        /\ StartsWithAt(body, i, w)
        /\ \E j \in CommasAfter(body, i + Len(w)) :
              LET b == RunEnd(body, j + 1, Space)
              IN b > j + 1 /\ StartsWithAt(body, b, name)

\* some pattern of name_patterns matches the body
NamePatternMatches(body, name) ==
    \/ TackNameMatches(body, name)
    \/ PossessiveNameMatches(body, name)
    \/ TravelNameMatches(body, name)

\* Tack\s+([A-Za-zåäöÅÄÖ]+)! at index i
TackAnySpans(body, i) ==
    LET b == RunEnd(body, i + 4, Space)
        c == RunEnd(body, b, SwedishLetter)
    IN [ok |-> /\ StartsWithAt(body, i, <<"T","a","c","k">>)
               /\ b > i + 4 /\ c > b
               /\ c <= Len(body) /\ body[c] = "!",
        name |-> Slice(body, b, c - 1)]

\* (?:reser|åker|färd|resa).*?,\s+([A-Za-zåäöÅÄÖ]+) at index i: the commas
\* after which a name follows
TravelAnyCommas(body, i) ==
    {j \in 1..Len(body) :
        \E w \in TravelWords :
            /\ StartsWithAt(body, i, w)
            /\ j \in CommasAfter(body, i + Len(w))
            /\ LET b == RunEnd(body, j + 1, Space)
               IN b > j + 1 /\ RunEnd(body, b, SwedishLetter) > b}

\* the lazy .*? stops at the first such comma
TravelAnySpans(body, i) ==
    LET J == TravelAnyCommas(body, i)
        j == Leftmost(J)
        b == RunEnd(body, j + 1, Space)
    IN [ok |-> J # {},
        name |-> Slice(body, b, RunEnd(body, b, SwedishLetter) - 1)]

\* ([A-Za-zåäöÅÄÖ]+)s\s+(?:resa|tur) at index i: the letters run on to an
\* "s" that blanks and a trip word follow
PossessiveAnySpans(body, i) ==
    LET r == RunEnd(body, i, SwedishLetter)
        b == RunEnd(body, r, Space)
    IN [ok |-> /\ r - 1 > i
               /\ body[r - 1] = "s"
               /\ b > r
               /\ \E w \in TripWords : StartsWithAt(body, b, w),
        name |-> Slice(body, i, r - 2)]

\* the capture of the first pattern of general_patterns that matches, <<>>
\* when none does
GeneralPassengerCandidate(body) ==
    LET i1 == Leftmost({j \in 1..Len(body) :
                           /\ StartsWithAt(body, j, <<"T","a","c","k">>)
                           /\ TackAnySpans(body, j).ok})
        i2 == Leftmost({j \in 1..Len(body) :
                           /\ \E w \in TravelWords : StartsWithAt(body, j, w)
                           /\ TravelAnySpans(body, j).ok})
        i3 == Leftmost({j \in 1..Len(body) :
                           /\ body[j] \in SwedishLetter
                           /\ PossessiveAnySpans(body, j).ok})
    IN IF i1 # 0 THEN TackAnySpans(body, i1).name
       ELSE IF i2 # 0 THEN TravelAnySpans(body, i2).name
       ELSE IF i3 # 0 THEN PossessiveAnySpans(body, i3).name
       ELSE <<>>

\* a stage with no roster lookup: the capture is used as it is
CanonicalVerbatim(candidate) == candidate

\* the roster's spelling of a candidate that equals a member in lower case
Canonical(candidate) ==
    IF \E member \in family_members : Lower(candidate) = Lower(member)
    THEN CHOOSE member \in family_members : Lower(candidate) = Lower(member)
    ELSE candidate

\* an extractor that tries the roster names before the greeting phrases
LenientPassengersNamesFirst(body) ==
    LET greeting == GreetingMatch(body, LenientGreetings)
        named == {name \in family_members : NamePatternMatches(body, name)}
        candidate == GeneralPassengerCandidate(body)
    IN IF named # {} THEN named
       ELSE IF greeting.ok THEN {greeting.name}
       ELSE IF candidate # <<>> THEN {Canonical(candidate)}
       ELSE {NoneVal}

\* the values `passenger` can end with in extract_receipt_from_email: more
\* than one when several roster names match, since the loop over the set
\* stops at the first that does
LenientPassengers(body) ==
    LET greeting == GreetingMatch(body, LenientGreetings)
        named == {name \in family_members : NamePatternMatches(body, name)}
        candidate == GeneralPassengerCandidate(body)
    IN IF greeting.ok THEN {greeting.name}
       ELSE IF named # {} THEN named
       ELSE IF candidate # <<>> THEN {Canonical(candidate)}
       ELSE {NoneVal}

\* `passenger` in the strict extractors
StrictPassenger(body) ==
    LET greeting == GreetingMatch(body, StrictGreetings)
    IN IF greeting.ok THEN greeting.name ELSE NoneVal

----------------------------------------------------------------------------
(* Records and the single-record extractors.                               *)
(*                                                                         *)
(* An element of `emails` is [kind, body]:                                 *)
(*   "dict"         a mapping whose 'body' is the text body                *)
(*   "dict_nobody"  a mapping with no 'body' key                           *)
(*   "dict_badbody" a mapping whose 'body' is not text (None, a number)    *)
(*   "nonmapping"   a number, a list, None: a value with no .get           *)
(*   "str_json"     a str that json.loads decodes to a mapping whose       *)
(*                  'body' is the text body                                *)
(*   "str_bad"      a str that json.loads rejects                          *)
(* What an extractor does is [exc, cost, currency, date, passenger]; exc   *)
(* names the exception that left it, "" when it returned.                  *)

Record(kind, body) == [kind |-> kind, body |-> body]

Returned(cost, currency, date, passenger) ==
    [exc |-> "", cost |-> cost, currency |-> currency, date |-> date,
     passenger |-> passenger]

Raised(exc) ==
    [exc |-> exc, cost |-> NoneCost, currency |-> NoneVal, date |-> NoneVal,
     passenger |-> NoneVal]

\* cost = float(cost_str) and currency of a match: float() raises
\* ValueError on a text it does not accept
CostOfMatch(m) ==
    LET cost_str == ReplaceCommaWithDot(m.amount)
    IN IF FloatParses(cost_str)
       THEN [exc |-> "", cost |-> FloatValue(cost_str), currency |-> m.currency]
       ELSE [exc |-> "ValueError", cost |-> NoneCost, currency |-> NoneVal]

NoCost == [exc |-> "", cost |-> NoneCost, currency |-> NoneVal]

\* an extractor with the keyword-anchored pattern only
LenientCostWithoutFallback(body) ==
    LET total_match == TotalMatch(body, LenientKeywords)
    IN IF total_match.ok THEN CostOfMatch(total_match) ELSE NoCost

\* cost and currency in extract_receipt_from_email
LenientCost(body) ==
    LET total_match == TotalMatch(body, LenientKeywords)
        total_match2 == RelaxedMatch(body)
    IN IF total_match.ok THEN CostOfMatch(total_match)
       ELSE IF total_match2.ok THEN CostOfMatch(total_match2)
       ELSE NoCost

\* cost and currency in extract_single_receipt and extract_uber_receipt_data
StrictCost(body) ==
    LET total_match == TotalMatch(body, StrictKeywords)
    IN IF total_match.ok THEN CostOfMatch(total_match) ELSE NoCost

\* an extractor that looks for a date anywhere in the body first
LenientDateGeneralFirst(body) ==
    LET date_match == AnchoredDateMatch(body, LenientKeywords)
        general_date_match == GeneralDateMatch(body)
    IN IF general_date_match.ok
       THEN convert_swedish_date_to_iso(Strip(general_date_match.text))
       ELSE IF date_match.ok
       THEN convert_swedish_date_to_iso(Strip(date_match.text))
       ELSE NoneVal

\* date_str in extract_receipt_from_email
LenientDate(body) ==
    LET date_match == AnchoredDateMatch(body, LenientKeywords)
        general_date_match == GeneralDateMatch(body)
    IN IF date_match.ok
       THEN convert_swedish_date_to_iso(Strip(date_match.text))
       ELSE IF general_date_match.ok
       THEN convert_swedish_date_to_iso(Strip(general_date_match.text))
       ELSE NoneVal

\* date_str in extract_single_receipt and extract_uber_receipt_data
StrictDate(body) ==
    LET date_match == AnchoredDateMatch(body, StrictKeywords)
    IN IF date_match.ok
       THEN convert_swedish_date_to_iso(Strip(date_match.text))
       ELSE NoneVal

\* email_data.get('body', '')
BodyOf(email_data) ==
    IF email_data.kind = "dict_nobody" THEN <<>> ELSE email_data.body

\* extract_receipt_from_email: the set of things it can do with a record
extract_receipt_from_email(email_data) ==
    IF email_data.kind = "str_bad"
    THEN {Returned(NoneCost, NoneVal, NoneVal, NoneVal)}
    ELSE IF email_data.kind = "nonmapping" THEN {Raised("AttributeError")}
    ELSE IF email_data.kind = "dict_badbody" THEN {Raised("TypeError")}
    ELSE LET body == BodyOf(email_data)
             c == LenientCost(body)
         IN IF c.exc # "" THEN {Raised(c.exc)}
            ELSE {Returned(c.cost, c.currency, LenientDate(body), passenger) :
                     passenger \in LenientPassengers(body)}

\* extract_single_receipt, the extractor of `function`
extract_single_receipt(email_data) ==
    IF email_data.kind \in {"nonmapping", "str_json", "str_bad"}
    THEN {Raised("AttributeError")}
    ELSE IF email_data.kind = "dict_badbody" THEN {Raised("TypeError")}
    ELSE LET body == BodyOf(email_data)
             c == StrictCost(body)
         IN IF c.exc # "" THEN {Raised(c.exc)}
            ELSE {Returned(c.cost, c.currency, StrictDate(body),
                           StrictPassenger(body))}

\* extract_uber_receipt_data, the extractor of process_all_emails: the same
\* four fields (its id, subject and is_cancellation fields are not read by
\* the aggregator's lists)
extract_uber_receipt_data(email_data) ==
    IF email_data.kind \in {"nonmapping", "str_json", "str_bad"}
    THEN {Raised("AttributeError")}
    ELSE IF email_data.kind = "dict_badbody" THEN {Raised("TypeError")}
    ELSE LET body == BodyOf(email_data)
             c == StrictCost(body)
         IN IF c.exc # "" THEN {Raised(c.exc)}
            ELSE {Returned(c.cost, c.currency, StrictDate(body),
                           StrictPassenger(body))}

Modes == {"extract_uber_data", "function", "process_all_emails"}

\* the extractor the aggregator `m` calls in its loop
Extract(m, email_data) ==
    IF m = "extract_uber_data" THEN extract_receipt_from_email(email_data)
    ELSE IF m = "function" THEN extract_single_receipt(email_data)
    ELSE extract_uber_receipt_data(email_data)

----------------------------------------------------------------------------
(* The string input of extract_uber_data.                                  *)
(*                                                                         *)
(* A text is a sequence of chunks [t, body]:                               *)
(*   "mark"    a match of \n\nValue #\d+:\n\n                              *)
(*   "ws"      blanks                                                      *)
(*   "txt"     text with no brace in it that is not JSON                   *)
(*   "{" "}" "[" "]" ","   the JSON punctuation                            *)
(*   "member"  the member "body": "<body>" of an object                    *)
(*   "num"     a JSON number                                               *)
(* json.loads is modelled on chunks: it accepts an object { member } or    *)
(* { }, a number, and an array of those, and raises JSONDecodeError on     *)
(* every other text.                                                       *)

Chunk(t) == [t |-> t, body |-> <<>>]
Member(body) == [t |-> "member", body |-> body]

NotBlankChunk(c) == c.t # "ws"

\* the value of an object or a number that starts at chunk i of t, and the
\* index after it; next = 0 when no value starts there
ValueAt(t, i) ==
    IF i + 2 <= Len(t) /\ t[i].t = "{" /\ t[i + 1].t = "member" /\ t[i + 2].t = "}"
    THEN [next |-> i + 3, value |-> Record("dict", t[i + 1].body)]
    ELSE IF i + 1 <= Len(t) /\ t[i].t = "{" /\ t[i + 1].t = "}"
    THEN [next |-> i + 2, value |-> Record("dict_nobody", <<>>)]
    ELSE IF i <= Len(t) /\ t[i].t = "num"
    THEN [next |-> i + 1, value |-> Record("nonmapping", <<>>)]
    ELSE [next |-> 0, value |-> Record("nonmapping", <<>>)]

\* the elements of an array from chunk i of t up to its closing bracket at
\* the last chunk
RECURSIVE ElementsFrom(_, _)
ElementsFrom(t, i) ==
    LET v == ValueAt(t, i)
    IN IF v.next = 0 THEN [ok |-> FALSE, values |-> <<>>]
       ELSE IF v.next = Len(t) THEN [ok |-> TRUE, values |-> <<v.value>>]
       ELSE IF t[v.next].t = ","
       THEN LET rest == ElementsFrom(t, v.next + 1)
            IN [ok |-> rest.ok, values |-> <<v.value>> \o rest.values]
       ELSE [ok |-> FALSE, values |-> <<>>]

\* json.loads(text): ok is FALSE when it raises JSONDecodeError
json_loads(text) ==
    LET t == SelectSeq(text, NotBlankChunk)
        v == ValueAt(t, 1)
    IN IF t # <<>> /\ v.next = Len(t) + 1
       THEN [ok |-> TRUE, islist |-> FALSE, values |-> <<v.value>>]
       ELSE IF Len(t) = 2 /\ t[1].t = "[" /\ t[2].t = "]"
       THEN [ok |-> TRUE, islist |-> TRUE, values |-> <<>>]
       ELSE IF Len(t) > 2 /\ t[1].t = "[" /\ t[Len(t)].t = "]"
       THEN LET e == ElementsFrom(t, 2)
            IN [ok |-> e.ok, islist |-> TRUE, values |-> e.values]
       ELSE [ok |-> FALSE, islist |-> FALSE, values |-> <<>>]

\* re.split(r'\n\nValue #\d+:\n\n', text), from chunk i on
RECURSIVE SplitOnMarksFrom(_, _)
SplitOnMarksFrom(text, i) ==
    LET Marks == {j \in i..Len(text) : text[j].t = "mark"}
    IN IF Marks = {} THEN <<Slice(text, i, Len(text))>>
       ELSE <<Slice(text, i, Min(Marks) - 1)>>
            \o SplitOnMarksFrom(text, Min(Marks) + 1)

SplitOnMarks(text) == SplitOnMarksFrom(text, 1)

\* part.strip()
StripChunks(part) ==
    LET Kept == {i \in DOMAIN part : part[i].t # "ws"}
    IN IF Kept = {} THEN <<>>
       ELSE Slice(part, Min(Kept), CHOOSE i \in Kept : \A j \in Kept : j <= i)

\* a loop body with no `elif '{' in part` branch
ParsePartWithoutPrefix(raw) ==
    LET part == StripChunks(raw)
    IN IF part = <<>> THEN <<>>
       ELSE IF part[1].t = "{" /\ part[Len(part)].t = "}" /\ json_loads(part).ok
       THEN json_loads(part).values
       ELSE <<>>

\* what the loop body adds to parsed_emails for one part of the split
ParsePart(raw) ==
    LET part == StripChunks(raw)
        Braces == {i \in DOMAIN part : part[i].t = "{"}
        json_part == Slice(part, Min(Braces), Len(part))
    IN IF part = <<>> THEN <<>>
       ELSE IF part[1].t = "{" /\ part[Len(part)].t = "}"
       THEN IF json_loads(part).ok THEN json_loads(part).values ELSE <<>>
       ELSE IF Braces # {}
       THEN IF json_part[Len(json_part)].t = "}" /\ json_loads(json_part).ok
            THEN json_loads(json_part).values
            ELSE <<>>
       ELSE <<>>

RECURSIVE ParseParts(_)
ParseParts(parts) ==
    IF parts = <<>> THEN <<>>
    ELSE ParsePart(Head(parts)) \o ParseParts(Tail(parts))

\* parsed_emails of extract_uber_data for a str argument
ParseEmailsText(text) ==
    IF json_loads(text).ok THEN json_loads(text).values
    ELSE ParseParts(SplitOnMarks(text))

\* emails of parse_uber_data_file for the content of the file
parse_uber_data_file(content) == ParseParts(SplitOnMarks(content))

----------------------------------------------------------------------------
(* The inputs the model runs on. *)

FullReceiptComma == <<"T","o","t","a","l","t"," ","1","2","3",",","4","5"," ","k","r"," ","5"," ","j","u","l","i"," ","2","0","2","5"," ","T","a","c","k"," ","f","o_uml","r"," ","a","t","t"," ","d","u"," ","r","e","s","e","r",","," ","V","i","g","g","o">>
FullReceiptDot == <<"T","o","t","a","l","t"," ","1","2","3",".","4","5"," ","k","r"," ","5"," ","j","u","l","i"," ","2","0","2","5"," ","T","a","c","k"," ","f","o_uml","r"," ","a","t","t"," ","d","u"," ","r","e","s","e","r",","," ","V","i","g","g","o">>
Cancellation == <<"A","v","b","o","k","n","i","n","g","s","a","v","g","i","f","t"," ","5","0",",","0","0"," ","k","r">>
CancellationThousands == <<"A","v","b","o","k","n","i","n","g","s","a","v","g","i","f","t"," ","1",".","0","5","0",",","0","0"," ","k","r">>
TotalThousands == <<"T","o","t","a","l","t"," ","1",".","2","3","4",",","5","6"," ","k","r"," ","5"," ","j","u","l","i"," ","2","0","2","5">>
LooseAmount == <<"P","r","i","s"," ","9","9"," ","k","r"," ","3","1"," ","d","e","c","e","m","b","e","r"," ","1","9","9","9">>
UnknownMonth == <<"T","o","t","a","l","t"," ","1","0"," ","U","S","$"," ","7"," ","f","o","o"," ","2","0","2","5"," ","T","a","c","k"," ","L","e","o","n","a","!">>
NoAmount == <<"H","e","j">>

Bodies == {FullReceiptComma, FullReceiptDot, Cancellation,
           CancellationThousands, TotalThousands, LooseAmount,
           UnknownMonth, NoAmount}

Records ==
    {Record("dict", b) : b \in Bodies}
    \cup {Record("dict_nobody", <<>>), Record("dict_badbody", <<>>),
          Record("nonmapping", <<>>), Record("str_bad", <<>>),
          Record("str_json", FullReceiptComma)}

\* bodies that single out one branch of extract_receipt_from_email
ShoutedName == <<"T","o","t","a","l","t"," ","1","0"," ","k","r"," ","T","a","c","k"," ","V","I","G","G","O","!">>
UnknownName == <<"T","o","t","a","l","t"," ","1","0"," ","k","r"," ","T","a","c","k"," ","A","n","n","a","!">>
TwoNames == <<"T","o","t","a","l","t"," ","1","0"," ","k","r"," ","T","a","c","k"," ","V","i","g","g","o","!"," ","L","e","o","n","a","s"," ","r","e","s","a">>
GreetingAndName == <<"T","o","t","a","l","t"," ","1","0"," ","k","r"," ","T","a","c","k"," ","f","o_uml","r"," ","a","t","t"," ","d","u"," ","r","e","s","e","r",","," ","A","n","n","a"," ","T","a","c","k"," ","V","i","g","g","o","!">>
TwoCostLines == <<"1"," ","m","a","j"," ","2","0","2","0"," ","T","o","t","a","l","t"," ","1","0"," ","k","r"," ","x"," ","T","o","t","a","l","t"," ","2","0"," ","k","r"," ","5"," ","j","u","l","i"," ","2","0","2","5">>
EarlierDate == <<"1"," ","m","a","j"," ","2","0","2","0"," ","T","o","t","a","l","t"," ","1","0"," ","k","r"," ","7"," ","f","o","o"," ","2","0","2","5">>
PreferredDate == <<"1"," ","m","a","j"," ","2","0","2","0"," ","T","o","t","a","l","t"," ","1","0"," ","k","r"," ","5"," ","j","u","l","i"," ","2","0","2","5">>
FeeThenTotal == <<"A","v","b","o","k","n","i","n","g","s","a","v","g","i","f","t"," ","5"," ","k","r"," ","T","o","t","a","l","t"," ","1","0"," ","k","r">>

ProbeBodies == {ShoutedName, UnknownName, TwoNames, GreetingAndName,
                TwoCostLines, EarlierDate, PreferredDate, FeeThenTotal}

\* the records an aggregator is called with on their own, in a list of one
ProbeRecords == {Record("dict", b) : b \in ProbeBodies}

\* the sequences over S of length n
SeqsOfLen(S, n) == [1..n -> S]

\* the sequences over S of length at most n
SeqsUpTo(S, n) == UNION {SeqsOfLen(S, k) : k \in 0..n}

\* the parts a text is put together from
Segments ==
    { <<Chunk("{"), Member(FullReceiptComma), Chunk("}")>>,
      <<Chunk("{"), Member(Cancellation), Chunk("}"), Chunk("ws")>>,
      <<Chunk("txt"), Chunk("ws"), Chunk("{"), Member(LooseAmount), Chunk("}")>>,
      <<Chunk("{"), Member(FullReceiptComma), Chunk("}"), Chunk("txt")>>,
      <<Chunk("{"), Member(FullReceiptComma)>>,
      <<Chunk("{"), Chunk("txt"), Chunk("}")>>,
      <<Chunk("txt")>>,
      <<Chunk("ws")>> }

\* the segments with a "mark" chunk between neighbours
RECURSIVE JoinWithMarks(_)
JoinWithMarks(segs) ==
    IF segs = <<>> THEN <<>>
    ELSE IF Len(segs) = 1 THEN segs[1]
    ELSE segs[1] \o <<Chunk("mark")>> \o JoinWithMarks(Tail(segs))

Texts ==
    {JoinWithMarks(segs) : segs \in SeqsUpTo(Segments, MaxSegments)}
    \cup { <<Chunk("["), Chunk("{"), Member(FullReceiptDot), Chunk("}"),
             Chunk(","), Chunk("num"), Chunk(","),
             Chunk("{"), Member(Cancellation), Chunk("}"), Chunk("]")>>,
           <<Chunk("["), Chunk("]")>>,
           <<Chunk("num")>>,
           <<Chunk("{"), Chunk("}")>> }

ListInput(list) == [kind |-> "list", list |-> list, text |-> <<>>]
TextInput(text) == [kind |-> "str", list |-> <<>>, text |-> text]

\* the arguments of convert_swedish_date_to_iso the model calls it with
DateDays == {<<"5">>, <<"0","5">>, <<"3","1">>, <<"1","2","3">>}
DateMonths == Range(swedish_months) \cup {<<"J","u","l","i">>, <<"D","E","C","E","M","B","E","R">>, <<"f","o","o">>, <<"j","u","l","y">>}
DateYears == {<<"2","0","2","5">>, <<"1","9","9","9">>}
DateInputs ==
    {d \o <<" ">> \o m \o <<" ">> \o y :
        d \in DateDays, m \in DateMonths, y \in DateYears}
    \cup {d \o <<" ">> \o m : d \in DateDays, m \in DateMonths}
    \cup {d \o <<" ">> \o m \o <<" ","2","0","2","5"," ","k","l">> : d \in DateDays, m \in DateMonths}
    \cup {<<>>, <<" ">>, <<"2","0","2","5","-","0","7","-","0","5">>, <<" "," ","5"," ","\n"," ","j","u","l","i"," ","\t"," ","2","0","2","5"," ">>}

----------------------------------------------------------------------------
(* The aggregators: extract_uber_data, function and process_all_emails. *)

ParseError == "Failed to parse emails data"
InconsistentError == "Inconsistent list lengths"
NoReceiptsError == "No valid receipts were extracted from the provided data"

InitBatch ==
    /\ mode \in Modes
    /\ input \in {ListInput(l) : l \in SeqsUpTo(Records, MaxEmails)}
                 \cup {ListInput(<<r>>) : r \in ProbeRecords}
                 \cup (IF mode = "extract_uber_data"
                       THEN {TextInput(t) : t \in Texts} ELSE {})
    /\ emails = <<>>
    /\ idx = 0
    /\ dates = <<>>
    /\ passenger_names = <<>>
    /\ costs = <<>>
    /\ currencies = <<>>
    /\ pc = "start"
    /\ error = ""
    /\ last = "none"
    /\ date_str = <<>>
    /\ date_iso = NoneVal

\* the outer `except Exception` of the string handling is entered: on the
\* texts of the model its try block raises nothing but the JSONDecodeError
\* it catches itself
ParsingRaises(text) == FALSE

\* the string handling at the head of extract_uber_data, then the four
\* empty lists; neither strict aggregator touches its argument
Start ==
    /\ pc = "start"
    /\ IF mode = "extract_uber_data" /\ input.kind = "str"
       THEN IF ParsingRaises(input.text)
            THEN emails' = <<>> /\ pc' = "raised" /\ error' = ParseError
            ELSE /\ emails' = ParseEmailsText(input.text)
                 /\ pc' = "loop"
                 /\ error' = ""
       ELSE emails' = input.list /\ pc' = "loop" /\ error' = ""
    /\ UNCHANGED <<mode, input, idx, dates, passenger_names, costs,
                   currencies, last, date_str, date_iso>>

\* a loop body that forgets the append to currencies
AppendExtractedWithoutCurrency(extracted) ==
    /\ dates' = Append(dates, extracted.date)
    /\ passenger_names' = Append(passenger_names, extracted.passenger)
    /\ costs' = Append(costs, extracted.cost)
    /\ currencies' = currencies

\* a loop body that puts each accepted record in front of the earlier ones
AppendExtractedInFront(extracted) ==
    /\ dates' = <<extracted.date>> \o dates
    /\ passenger_names' = <<extracted.passenger>> \o passenger_names
    /\ costs' = <<extracted.cost>> \o costs
    /\ currencies' = <<extracted.currency>> \o currencies

\* a loop body that appends each accepted record twice
AppendExtractedTwice(extracted) ==
    /\ dates' = dates \o <<extracted.date, extracted.date>>
    /\ passenger_names' =
          passenger_names \o <<extracted.passenger, extracted.passenger>>
    /\ costs' = costs \o <<extracted.cost, extracted.cost>>
    /\ currencies' = currencies \o <<extracted.currency, extracted.currency>>

\* the four appends of an accepted record
AppendExtracted(extracted) ==
    /\ dates' = Append(dates, extracted.date)
    /\ passenger_names' = Append(passenger_names, extracted.passenger)
    /\ costs' = Append(costs, extracted.cost)
    /\ currencies' = Append(currencies, extracted.currency)

\* a loop body that keeps a record only when it has a date as well
IsAcceptedWithDate(extracted) ==
    /\ extracted.cost # NoneCost
    /\ extracted.currency # NoneVal
    /\ extracted.date # NoneVal

\* a loop body with no test of cost and currency
IsAcceptedAlways(extracted) == TRUE

\* `extracted['cost'] is not None and extracted['currency'] is not None`
IsAccepted(extracted) ==
    extracted.cost # NoneCost /\ extracted.currency # NoneVal

\* a loop body with no try: the extractor's exception leaves the aggregator
HandleOutcomeWithoutTry(extracted) ==
    IF extracted.exc # ""
    THEN /\ last' = "raised"
         /\ pc' = "raised"
         /\ error' = extracted.exc
         /\ UNCHANGED <<dates, passenger_names, costs, currencies>>
    ELSE IF IsAccepted(extracted)
    THEN /\ AppendExtracted(extracted)
         /\ last' = "accepted"
         /\ pc' = "loop"
         /\ UNCHANGED error
    ELSE /\ last' = "rejected"
         /\ pc' = "loop"
         /\ UNCHANGED <<dates, passenger_names, costs, currencies, error>>

\* the body of the for loop on an extractor's outcome: `except Exception`
\* skips the record, the test of cost and currency keeps or drops it
HandleOutcome(extracted) ==
    IF extracted.exc # ""
    THEN /\ last' = "raised"
         /\ pc' = "loop"
         /\ UNCHANGED <<dates, passenger_names, costs, currencies, error>>
    ELSE IF IsAccepted(extracted)
    THEN /\ AppendExtracted(extracted)
         /\ last' = "accepted"
         /\ pc' = "loop"
         /\ UNCHANGED error
    ELSE /\ last' = "rejected"
         /\ pc' = "loop"
         /\ UNCHANGED <<dates, passenger_names, costs, currencies, error>>

\* one iteration of `for email in emails`
ProcessEmail ==
    /\ pc = "loop"
    /\ idx < Len(emails)
    /\ \E extracted \in Extract(mode, emails[idx + 1]) :
           HandleOutcome(extracted)
    /\ idx' = idx + 1
    /\ UNCHANGED <<mode, input, emails, date_str, date_iso>>

\* `len(set(list_lengths)) != 1`
InconsistentLengths ==
    Cardinality({Len(dates), Len(passenger_names), Len(costs),
                 Len(currencies)}) # 1

\* an extract_uber_data with no check that some receipt was extracted
RaisesOnNoReceiptsNever(m) == FALSE

\* `if total_receipts == 0: raise`, which only extract_uber_data has
RaisesOnNoReceipts(m) == m = "extract_uber_data"

\* the checks after the loop, and the return
Validate ==
    /\ pc = "loop"
    /\ idx = Len(emails)
    /\ IF InconsistentLengths
       THEN pc' = "raised" /\ error' = InconsistentError
       ELSE IF RaisesOnNoReceipts(mode) /\ Len(costs) = 0
       THEN pc' = "raised" /\ error' = NoReceiptsError
       ELSE pc' = "returned" /\ error' = ""
    /\ UNCHANGED <<mode, input, emails, idx, dates, passenger_names, costs,
                   currencies, last, date_str, date_iso>>

----------------------------------------------------------------------------
(* convert_swedish_date_to_iso of process_uber_receipts.py called on its   *)
(* own. *)

InitDate ==
    /\ mode = "convert_swedish_date_to_iso"
    /\ input = ListInput(<<>>)
    /\ emails = <<>>
    /\ idx = 0
    /\ dates = <<>>
    /\ passenger_names = <<>>
    /\ costs = <<>>
    /\ currencies = <<>>
    /\ pc = "call"
    /\ error = ""
    /\ last = "none"
    /\ date_str \in DateInputs
    /\ date_iso = NoneVal

ConvertDate ==
    /\ pc = "call"
    /\ date_iso' = convert_swedish_date_to_iso(date_str)
    /\ pc' = "returned"
    /\ UNCHANGED <<mode, input, emails, idx, dates, passenger_names, costs,
                   currencies, error, last, date_str>>

----------------------------------------------------------------------------
(* The program: one call of an aggregator or of the date conversion. *)

Init == InitBatch \/ InitDate

Next == Start \/ ProcessEmail \/ Validate \/ ConvertDate

Spec == Init /\ [][Next]_vars

----------------------------------------------------------------------------
(* The claims. *)

Finished == pc \in {"returned", "raised"}

Batch == mode \in Modes

\* C1: in every aggregator, after every processed record (accepted,
\* rejected or raised) the four lists have one length, and the
\* 'Inconsistent list lengths' error is never raised.
C1_ParallelLists ==
    Batch =>
        /\ Len(dates) = Len(costs)
        /\ Len(passenger_names) = Len(costs)
        /\ Len(currencies) = Len(costs)
        /\ error # InconsistentError

\* C1 witness: a record has been accepted and a later one raised.
C1_Witness ==
    /\ Batch
    /\ idx = 2
    /\ last = "raised"
    /\ Len(costs) = 1
    /\ Len(dates) = 1

\* C2: every entry of a returned result has a cost and a currency; its date
\* and its passenger may be None.
C2_CostAndCurrencyPresent ==
    Batch =>
        /\ \A i \in DOMAIN costs : costs[i] # NoneCost
        /\ \A i \in DOMAIN currencies : currencies[i] # NoneVal

\* C2 witness: a returned entry with a cost and a currency and neither a
\* date nor a passenger.
C2_Witness ==
    /\ Batch
    /\ pc = "returned"
    /\ \E i \in DOMAIN costs :
          /\ costs[i] # NoneCost
          /\ currencies[i] # NoneVal
          /\ dates[i] = NoneVal
          /\ passenger_names[i] = NoneVal

\* the record is a mapping, or a str that decodes to one, whose body is text
HasTextBody(r) == r.kind \in {"dict", "dict_nobody", "str_json"}

\* the body of the record matches total_pattern or total_pattern2
MatchesCostPattern(r) ==
    /\ HasTextBody(r)
    /\ \/ TotalMatch(BodyOf(r), LenientKeywords).ok
       \/ RelaxedMatch(BodyOf(r)).ok

\* the amount text the lenient extractor takes from the body
MatchedAmount(body) ==
    IF TotalMatch(body, LenientKeywords).ok
    THEN TotalMatch(body, LenientKeywords).amount
    ELSE RelaxedMatch(body).amount

\* that amount text is a number once ',' is '.'
AmountIsNumber(r) == FloatParses(ReplaceCommaWithDot(MatchedAmount(BodyOf(r))))

\* the indices from i on, in order, of the records of `emails` in the set R
RECURSIVE IndicesFrom(_, _)
IndicesFrom(i, R) ==
    IF i > Len(emails) THEN <<>>
    ELSE IF emails[i] \in R THEN <<i>> \o IndicesFrom(i + 1, R)
    ELSE IndicesFrom(i + 1, R)

\* the four lists are the fields of the records at the indices sel, in order
ListsAreFieldsOf(sel) ==
    /\ Len(costs) = Len(sel)
    /\ Len(currencies) = Len(sel)
    /\ Len(dates) = Len(sel)
    /\ Len(passenger_names) = Len(sel)
    /\ \A k \in DOMAIN sel :
          LET body == BodyOf(emails[sel[k]])
          IN /\ costs[k] = LenientCost(body).cost
             /\ currencies[k] = LenientCost(body).currency
             /\ dates[k] = LenientDate(body)
             /\ passenger_names[k] \in LenientPassengers(body)

\* C3 as stated: when extract_uber_data returns, the lists are the fields,
\* in input order, of the records whose body matches a cost-and-currency
\* pattern, an amount with several separators included.
C3_Original ==
    (mode = "extract_uber_data" /\ pc = "returned") =>
        ListsAreFieldsOf(
            IndicesFrom(1, {r \in Range(emails) : MatchesCostPattern(r)}))

\* C3 amended: when extract_uber_data returns, the lists are the fields, in
\* input order, of the records whose body matches a cost-and-currency
\* pattern and whose matched amount is a number once ',' is '.'; a record
\* whose amount has several separators is dropped.
C3_FieldsOfParsedAmounts ==
    (mode = "extract_uber_data" /\ pc = "returned") =>
        ListsAreFieldsOf(
            IndicesFrom(1, {r \in Range(emails) :
                               MatchesCostPattern(r) /\ AmountIsNumber(r)}))

\* C3 witness: extract_uber_data returned two entries with different costs,
\* the first from the first record.
C3_Witness ==
    /\ mode = "extract_uber_data"
    /\ pc = "returned"
    /\ Len(emails) = 2
    /\ Len(costs) = 2
    /\ costs[1] # costs[2]
    /\ costs[1] = LenientCost(BodyOf(emails[1])).cost

\* C4 as stated: an aggregation that ends with no accepted record raises,
\* in extract_uber_data and in `function` alike.
C4_Original ==
    (mode \in {"extract_uber_data", "function"} /\ Finished /\ Len(costs) = 0)
        => pc = "raised"

\* C4 amended: extract_uber_data raises the 'No valid receipts' error when
\* it ends with no accepted record, for empty and non-empty inputs alike;
\* `function` has no such check and returns four empty lists.
C4_OnlyLenientRaisesOnEmpty ==
    (Finished /\ Len(costs) = 0) =>
        /\ mode = "extract_uber_data" =>
              pc = "raised" /\ error = NoReceiptsError
        /\ mode = "function" =>
              /\ pc = "returned"
              /\ dates = <<>> /\ passenger_names = <<>>
              /\ costs = <<>> /\ currencies = <<>>

\* C4 witness: extract_uber_data raised on a non-empty input none of whose
\* records was accepted.
C4_Witness ==
    /\ mode = "extract_uber_data"
    /\ pc = "raised"
    /\ error = NoReceiptsError
    /\ Len(emails) = 2
    /\ Len(costs) = 0

\* the text has no marker and no '{' and is not JSON
IsMalformedText(text) ==
    /\ ~json_loads(text).ok
    /\ \A i \in DOMAIN text : text[i].t \notin {"mark", "{"}

\* C5: on a str that is not JSON and has neither a 'Value #<n>:' marker nor
\* a '{', extract_uber_data raises the 'Failed to parse emails data' error.
C5_ParseFailureNamed ==
    (/\ mode = "extract_uber_data"
     /\ input.kind = "str"
     /\ IsMalformedText(input.text)
     /\ Finished)
        => (pc = "raised" /\ error = ParseError)

\* the extractor raises on the record
ExtractionRaises(m, r) == \A extracted \in Extract(m, r) : extracted.exc # ""

\* C6: an exception raised while one record is extracted stays in the loop:
\* the step leaves the four lists as they were, raises nothing to the caller
\* and moves on to the next record; no aggregator ends before it has been
\* through every record.
C6_ExceptionSkipsRecord ==
    /\ [][(/\ Batch
           /\ pc = "loop"
           /\ idx < Len(emails)
           /\ ExtractionRaises(mode, emails[idx + 1]))
          => (/\ pc' = "loop"
              /\ idx' = idx + 1
              /\ error' = ""
              /\ UNCHANGED <<dates, passenger_names, costs, currencies>>)]_vars
    /\ [](Batch /\ Finished => idx = Len(emails))

\* C6 witness: the first record raised and the second was accepted.
C6_Witness ==
    /\ Batch
    /\ idx = 2
    /\ ExtractionRaises(mode, emails[1])
    /\ last = "accepted"
    /\ Len(costs) = 1

\* the chunks of a segment from its first '{' on, blanks left out
FromFirstBrace(seg) ==
    LET Braces == {i \in DOMAIN seg : seg[i].t = "{"}
    IN IF Braces = {} THEN <<>>
       ELSE SelectSeq(Slice(seg, Min(Braces), Len(seg)), NotBlankChunk)

\* a text that is one JSON object: { "body": ... } or { }
IsObjectText(t) ==
    \/ Len(t) = 3 /\ t[1].t = "{" /\ t[2].t = "member" /\ t[3].t = "}"
    \/ Len(t) = 2 /\ t[1].t = "{" /\ t[2].t = "}"

\* the record such a text decodes to
ObjectOf(t) ==
    IF Len(t) = 3 THEN Record("dict", t[2].body)
    ELSE Record("dict_nobody", <<>>)

\* one record, in segment order, for each segment that decodes
RECURSIVE DecodedSegments(_)
DecodedSegments(segs) ==
    IF segs = <<>> THEN <<>>
    ELSE (IF IsObjectText(FromFirstBrace(Head(segs)))
          THEN <<ObjectOf(FromFirstBrace(Head(segs)))>> ELSE <<>>)
         \o DecodedSegments(Tail(segs))

\* a text of two segments: a well-formed one whose receipt has a cost and a
\* currency, then one with a '{' that does not decode
IsGoodThenUnparsable(text) ==
    LET segs == SplitOnMarks(text)
    IN /\ Len(segs) = 2
       /\ IsObjectText(FromFirstBrace(segs[1]))
       /\ MatchesCostPattern(ObjectOf(FromFirstBrace(segs[1])))
       /\ AmountIsNumber(ObjectOf(FromFirstBrace(segs[1])))
       /\ FromFirstBrace(segs[2]) # <<>>
       /\ ~IsObjectText(FromFirstBrace(segs[2]))

\* C7: for a str that is not JSON as a whole, the records are, in segment
\* order, one for each segment between 'Value #<n>:' markers whose text from
\* its first '{' to its end is a JSON object; the other segments are dropped
\* and raise nothing; parse_uber_data_file does the same with a file's
\* content; a well-formed fragment followed by an unparsable one gives lists
\* of length 1.
C7_OneRecordPerDecodableSegment ==
    (mode = "extract_uber_data" /\ input.kind = "str") =>
        /\ parse_uber_data_file(input.text)
              = DecodedSegments(SplitOnMarks(input.text))
        /\ (~json_loads(input.text).ok /\ pc # "start") =>
              /\ emails = DecodedSegments(SplitOnMarks(input.text))
              /\ error # ParseError
        /\ (IsGoodThenUnparsable(input.text) /\ Finished) =>
              /\ pc = "returned"
              /\ Len(costs) = 1
              /\ Len(dates) = 1
              /\ Len(passenger_names) = 1
              /\ Len(currencies) = 1

\* C7 witness: extract_uber_data returned lists of length 1 for a
\* well-formed fragment followed by an unterminated one.
C7_Witness ==
    /\ mode = "extract_uber_data"
    /\ input.kind = "str"
    /\ input.text = <<Chunk("{"), Member(FullReceiptComma), Chunk("}"),
                      Chunk("mark"),
                      Chunk("{"), Member(FullReceiptComma)>>
    /\ pc = "returned"
    /\ Len(costs) = 1

\* the record is a mapping whose body has the cancellation keyword followed
\* by an amount and a currency token, and no greeting phrase
IsCancellationRecord(r) ==
    /\ r.kind = "dict"
    /\ TotalMatch(r.body, {Avbokningsavgift}).ok
    /\ ~GreetingMatch(r.body, LenientGreetings).ok

\* the record just processed was accepted with a cost and a currency
LatestWasAccepted ==
    /\ last = "accepted"
    /\ costs # <<>>
    /\ costs[Len(costs)] # NoneCost
    /\ currencies[Len(currencies)] # NoneVal

\* C8 as stated: extract_uber_data accepts every cancellation record.
C8_Original ==
    (/\ mode = "extract_uber_data"
     /\ idx >= 1
     /\ IsCancellationRecord(emails[idx]))
        => LatestWasAccepted

\* C8 amended: extract_uber_data accepts a cancellation record, with cost
\* and currency present and date and passenger possibly None, when the
\* amount of the first keyword-anchored cost line of the body is a number
\* once ',' is '.', that is, has at most one separator.
C8_CancellationAccepted ==
    (/\ mode = "extract_uber_data"
     /\ idx >= 1
     /\ IsCancellationRecord(emails[idx])
     /\ AmountIsNumber(emails[idx]))
        => /\ LatestWasAccepted
           /\ costs[Len(costs)] = LenientCost(emails[idx].body).cost

\* C8 witness: a cancellation record was accepted with neither a date nor a
\* passenger.
C8_Witness ==
    /\ mode = "extract_uber_data"
    /\ idx >= 1
    /\ IsCancellationRecord(emails[idx])
    /\ LatestWasAccepted
    /\ costs[Len(costs)] = <<50, 0>>
    /\ dates[Len(dates)] = NoneVal
    /\ passenger_names[Len(passenger_names)] = NoneVal

\* the table of convert_swedish_date_to_iso, written out
MonthTable ==
    { <<<<"j","a","n","u","a","r","i">>, <<"0","1">>>>, <<<<"f","e","b","r","u","a","r","i">>, <<"0","2">>>>,
      <<<<"m","a","r","s">>, <<"0","3">>>>, <<<<"a","p","r","i","l">>, <<"0","4">>>>,
      <<<<"m","a","j">>, <<"0","5">>>>, <<<<"j","u","n","i">>, <<"0","6">>>>,
      <<<<"j","u","l","i">>, <<"0","7">>>>, <<<<"a","u","g","u","s","t","i">>, <<"0","8">>>>,
      <<<<"s","e","p","t","e","m","b","e","r">>, <<"0","9">>>>, <<<<"o","k","t","o","b","e","r">>, <<"1","0">>>>,
      <<<<"n","o","v","e","m","b","e","r">>, <<"1","1">>>>, <<<<"d","e","c","e","m","b","e","r">>, <<"1","2">>>> }

\* YYYY-MM-DD
IsIsoForm(d) ==
    /\ Len(d) = 10
    /\ d[5] = "-" /\ d[8] = "-"
    /\ \A i \in {1, 2, 3, 4, 6, 7, 9, 10} : d[i] \in Digit

\* a day of digits, zero-padded to two digits
PaddedDay(day) == IF Len(day) = 1 THEN <<"0">> \o day ELSE day

\* what the claim gives for a date token: year-month-day for three parts
\* with a Swedish month name in the middle, None otherwise
ExpectedIso(token) ==
    LET parts == Split(token)
    IN IF /\ Len(parts) = 3
          /\ \E e \in MonthTable : e[1] = Lower(parts[2])
       THEN parts[3] \o <<"-">>
            \o (CHOOSE e \in MonthTable : e[1] = Lower(parts[2]))[2]
            \o <<"-">> \o PaddedDay(parts[1])
       ELSE NoneVal

\* C9: convert_swedish_date_to_iso returns for every string, and raises for
\* none: '<year>-<two-digit month>-<day padded to two digits>' for three
\* blank-separated parts with a Swedish month name, in any case, in the
\* middle, None for another month name or another number of parts; every
\* date in the lists of the aggregators is None or of the form YYYY-MM-DD.
C9_DateConversion ==
    /\ mode = "convert_swedish_date_to_iso" =>
          /\ pc \in {"call", "returned"}
          /\ error = ""
          /\ pc = "returned" => date_iso = ExpectedIso(date_str)
    /\ Batch => \A i \in DOMAIN dates :
                    dates[i] = NoneVal \/ IsIsoForm(dates[i])

\* C9 witness: '5 juli 2025' was converted to '2025-07-05'.
C9_Witness ==
    /\ mode = "convert_swedish_date_to_iso"
    /\ pc = "returned"
    /\ date_str = <<"5"," ","j","u","l","i"," ","2","0","2","5">>
    /\ date_iso = <<"2","0","2","5","-","0","7","-","0","5">>

\* the body with each ',' of the matched amount m turned into '.'
WithDots(body, m) ==
    [i \in DOMAIN body |->
        IF m.ok /\ i >= m.at /\ i < m.at + Len(m.amount) /\ body[i] = ","
        THEN "." ELSE body[i]]

\* the amount match the lenient extractor takes its cost from
LenientAmountMatch(body) ==
    IF TotalMatch(body, LenientKeywords).ok
    THEN TotalMatch(body, LenientKeywords)
    ELSE RelaxedMatch(body)

\* the body of the record with '.' for ',' in the amount the aggregator m
\* matches
DotVariant(m, body) ==
    IF m = "extract_uber_data" THEN WithDots(body, LenientAmountMatch(body))
    ELSE WithDots(body, TotalMatch(body, StrictKeywords))

\* C10: a body and the body that has '.' where its matched amount has ','
\* give the same cost and the same currency, in the lenient and in the
\* strict extractors; two such records in one input are both accepted with
\* equal cost and currency, or neither is.
C10_DecimalSeparator ==
    Batch =>
        /\ \A i \in DOMAIN emails :
              HasTextBody(emails[i]) =>
                  LET body == BodyOf(emails[i])
                  IN /\ LenientCost(DotVariant("extract_uber_data", body))
                           = LenientCost(body)
                     /\ StrictCost(DotVariant("function", body))
                           = StrictCost(body)
        /\ (/\ Finished
            /\ Len(emails) = 2
            /\ emails[1].kind = "dict"
            /\ emails[2].kind = "dict"
            /\ emails[2].body = DotVariant(mode, emails[1].body))
              => \/ Len(costs) = 0
                 \/ /\ Len(costs) = 2
                    /\ costs[1] = costs[2]
                    /\ currencies[1] = currencies[2]

\* C10 witness: '123,45' and '123.45' both gave 123.45 kr.
C10_Witness ==
    /\ Batch
    /\ Finished
    /\ Len(emails) = 2
    /\ emails[1] = Record("dict", FullReceiptComma)
    /\ emails[2] = Record("dict", FullReceiptDot)
    /\ costs = << <<12345, 2>>, <<12345, 2>> >>
    /\ currencies = <<<<"k","r">>, <<"k","r">>>>

\* the record is a mapping, or a str that decodes to one, with a text body,
\* and extract_uber_data has just accepted it
LenientAccepted ==
    /\ mode = "extract_uber_data"
    /\ idx >= 1
    /\ last = "accepted"
    /\ emails[idx].kind \in {"dict", "str_json"}

\* the fields of the entry appended last
LastCost == costs[Len(costs)]
LastCurrency == currencies[Len(currencies)]
LastDate == dates[Len(dates)]
LastPassenger == passenger_names[Len(passenger_names)]

\* a fixed greeting phrase followed by a word is in the body (stage a)
GreetingStage(body) == GreetingMatch(body, LenientGreetings).ok

\* the roster names one of whose patterns matches the body (stage b)
NamedInBody(body) == {name \in family_members : NamePatternMatches(body, name)}

\* the passenger comes from a generic pattern (stage c)
GenericStage(body) ==
    /\ ~GreetingStage(body)
    /\ NamedInBody(body) = {}
    /\ GeneralPassengerCandidate(body) # <<>>

\* C11: a passenger taken from a generic pattern is the roster name that
\* equals the captured text when case is ignored, in the roster's spelling,
\* and the captured text itself when no roster name does.
C11_RosterCasing ==
    (LenientAccepted /\ GenericStage(BodyOf(emails[idx]))) =>
        LET captured == GeneralPassengerCandidate(BodyOf(emails[idx]))
        IN IF \E member \in family_members : Lower(member) = Lower(captured)
           THEN /\ LastPassenger \in family_members
                /\ Lower(LastPassenger) = Lower(captured)
           ELSE LastPassenger = captured

\* C11 witness: 'Tack VIGGO!' gave the passenger 'Viggo'.
C11_Witness ==
    /\ LenientAccepted
    /\ emails[idx] = Record("dict", ShoutedName)
    /\ GenericStage(ShoutedName)
    /\ GeneralPassengerCandidate(ShoutedName) = <<"V","I","G","G","O">>
    /\ LastPassenger = <<"V","i","g","g","o">>

\* C12: extraction is a function of the body and of the roster's contents:
\* whatever the order the roster is gone through in, the extractor can do
\* one thing only with the record just processed, so an accepted record's
\* entry is the same in every run; and the records are left as they were
\* passed in.
C12_PureExtraction ==
    Batch =>
        /\ idx >= 1 =>
              \A o1, o2 \in Extract(mode, emails[idx]) : o1 = o2
        /\ (idx >= 1 /\ last = "accepted") =>
              \A o \in Extract(mode, emails[idx]) :
                  /\ o.cost = LastCost
                  /\ o.currency = LastCurrency
                  /\ o.date = LastDate
                  /\ o.passenger = LastPassenger
        /\ (input.kind = "list" /\ pc # "start") => emails = input.list

\* where the keyword-anchored cost lines of the body start
CostLines(body) == TotalHits(body, LenientKeywords)

\* the line cost and currency are taken from: the first one, 0 when the
\* body has none
CostLine(body) == Leftmost(CostLines(body))

\* the '<day> <month-name> <year>' token right after the cost line at i,
\* <<>> when something else follows the line
FollowingDate(body, i) ==
    LET line == TotalSpans(body, i,
                    CHOOSE kw \in LenientKeywords : TotalSpans(body, i, kw).ok)
        j == RunEnd(body, line.stop, Space)
    IN IF j > line.stop /\ DateSpans(body, j).ok
       THEN DateSpans(body, j).text ELSE <<>>

\* the cost lines a date token follows
DatedCostLines(body) == {i \in CostLines(body) : FollowingDate(body, i) # <<>>}

\* the first '<day> <month-name> <year>' token of the body, converted
FirstDateAnywhere(body) ==
    IF GeneralDateMatch(body).ok
    THEN convert_swedish_date_to_iso(GeneralDateMatch(body).text)
    ELSE NoneVal

\* C13 as stated: the date is the converted token that follows the cost
\* line cost and currency were taken from when a token follows that line,
\* and the body's first token otherwise.
C13_Original ==
    LenientAccepted =>
        LET body == BodyOf(emails[idx])
            i == CostLine(body)
        IN IF i # 0 /\ FollowingDate(body, i) # <<>>
           THEN LastDate = convert_swedish_date_to_iso(FollowingDate(body, i))
           ELSE LastDate = FirstDateAnywhere(body)

\* C13 amended: the date is the converted token that follows the first
\* cost line of the body that a token follows; that is the line cost and
\* currency were taken from whenever a token follows that line; a token
\* with an unknown month gives None and no other date is looked for; the
\* date is the body's first token only when no cost line is followed by one.
C13_DateOfFirstDatedCostLine ==
    LenientAccepted =>
        LET body == BodyOf(emails[idx])
            i == CostLine(body)
            dated == DatedCostLines(body)
        IN /\ IF dated # {}
              THEN LastDate
                     = convert_swedish_date_to_iso(FollowingDate(body, Min(dated)))
              ELSE LastDate = FirstDateAnywhere(body)
           /\ (i # 0 /\ FollowingDate(body, i) # <<>>) =>
                 LastDate = convert_swedish_date_to_iso(FollowingDate(body, i))

\* C13 witness: the date after the cost line was taken although another
\* date stands earlier in the body.
C13_Witness ==
    /\ LenientAccepted
    /\ emails[idx] = Record("dict", PreferredDate)
    /\ FollowingDate(PreferredDate, CostLine(PreferredDate)) = <<"5"," ","j","u","l","i"," ","2","0","2","5">>
    /\ FirstDateAnywhere(PreferredDate) = <<"2","0","2","0","-","0","5","-","0","1">>
    /\ LastDate = <<"2","0","2","5","-","0","7","-","0","5">>

\* extract_uber_data has just been through a record with a text body
LenientProcessed ==
    /\ mode = "extract_uber_data"
    /\ idx >= 1
    /\ HasTextBody(emails[idx])

\* the number an amount text stands for once ',' is '.'
AmountValue(amount) == FloatValue(ReplaceCommaWithDot(amount))

\* the record just processed was accepted with this cost and currency
AcceptedWith(cost, currency) ==
    /\ last = "accepted"
    /\ LastCost = cost
    /\ LastCurrency = currency

\* C14 as stated: without a cost from the keyword-anchored pattern, cost and
\* currency are those of the first number followed by a currency-looking
\* token; the record is rejected exactly when neither pattern matches.
C14_Original ==
    LenientProcessed =>
        LET body == BodyOf(emails[idx])
            keyword == TotalMatch(body, LenientKeywords)
            relaxed == RelaxedMatch(body)
        IN /\ (~keyword.ok /\ relaxed.ok) =>
                 AcceptedWith(AmountValue(relaxed.amount), relaxed.currency)
           /\ (last # "accepted") <=> (~keyword.ok /\ ~relaxed.ok)

\* C14 amended: when the keyword-anchored pattern does not match, cost and
\* currency are those of the first number followed by a currency-looking
\* token, and the record is rejected when there is none; when the
\* keyword-anchored pattern matches, its amount is used and the looser
\* pattern is not tried: the record is accepted if that amount is a number
\* once ',' is '.', and dropped by the ValueError otherwise.
C14_FallbackWithoutKeywordLine ==
    LenientProcessed =>
        LET body == BodyOf(emails[idx])
            keyword == TotalMatch(body, LenientKeywords)
            relaxed == RelaxedMatch(body)
            parses == FloatParses(ReplaceCommaWithDot(keyword.amount))
        IN /\ (~keyword.ok /\ relaxed.ok) =>
                 AcceptedWith(AmountValue(relaxed.amount), relaxed.currency)
           /\ (~keyword.ok /\ ~relaxed.ok) => last = "rejected"
           /\ (keyword.ok /\ parses) =>
                 AcceptedWith(AmountValue(keyword.amount), keyword.currency)
           /\ (keyword.ok /\ ~parses) => last = "raised"

\* C14 witness: 'Pris 99 kr ...' has no keyword and gave 99 kr.
C14_Witness ==
    /\ LenientProcessed
    /\ emails[idx] = Record("dict", LooseAmount)
    /\ ~TotalMatch(LooseAmount, LenientKeywords).ok
    /\ RelaxedMatch(LooseAmount).amount = <<"9","9">>
    /\ AcceptedWith(<<99, 0>>, <<"k","r">>)

\* C15: the passenger is the word after a fixed greeting phrase whenever
\* the body has one; otherwise a roster name one of whose patterns matches
\* the body, whenever there is one (the first such name in the order the
\* roster is gone through); otherwise what the generic patterns capture;
\* and None exactly when no stage matches.
C15_StagesInOrder ==
    LenientAccepted =>
        LET body == BodyOf(emails[idx])
            named == NamedInBody(body)
            captured == GeneralPassengerCandidate(body)
        IN /\ GreetingStage(body) =>
                 LastPassenger = GreetingMatch(body, LenientGreetings).name
           /\ (~GreetingStage(body) /\ named # {}) => LastPassenger \in named
           /\ (~GreetingStage(body) /\ named = {} /\ captured # <<>>) =>
                 /\ LastPassenger # NoneVal
                 /\ Lower(LastPassenger) = Lower(captured)
           /\ LastPassenger = NoneVal
                 <=> (~GreetingStage(body) /\ named = {} /\ captured = <<>>)

\* C15 witness: the word after the greeting phrase was taken although a
\* roster name's pattern matches the body as well.
C15_Witness ==
    /\ LenientAccepted
    /\ emails[idx] = Record("dict", GreetingAndName)
    /\ GreetingStage(GreetingAndName)
    /\ <<"V","i","g","g","o">> \in NamedInBody(GreetingAndName)
    /\ LastPassenger = <<"A","n","n","a">>

\* `function` has just accepted a record
StrictAccepted ==
    /\ mode = "function"
    /\ idx >= 1
    /\ last = "accepted"

\* extract_uber_data accepts the record with this cost and currency
LenientAccepts(r, cost, currency) ==
    \A o \in extract_receipt_from_email(r) :
        /\ o.exc = ""
        /\ IsAccepted(o)
        /\ o.cost = cost
        /\ o.currency = currency

\* the <<cost, currency>> pairs extract_uber_data gives for a list
RECURSIVE LenientPairs(_)
LenientPairs(list) ==
    IF list = <<>> THEN <<>>
    ELSE LET o == CHOOSE x \in extract_receipt_from_email(Head(list)) : TRUE
         IN (IF o.exc = "" /\ IsAccepted(o)
             THEN << <<o.cost, o.currency>> >> ELSE <<>>)
            \o LenientPairs(Tail(list))

\* the <<cost, currency>> pairs of the lists built so far
OutputPairs == [i \in DOMAIN costs |-> <<costs[i], currencies[i]>>]

\* a is b with some of its elements left out
RECURSIVE IsSubSequence(_, _)
IsSubSequence(a, b) ==
    IF a = <<>> THEN TRUE
    ELSE IF b = <<>> THEN FALSE
    ELSE IF Head(a) = Head(b) THEN IsSubSequence(Tail(a), Tail(b))
    ELSE IsSubSequence(a, Tail(b))

\* the first keyword-anchored cost line of the body is a 'Totalt' line
TotalLineFirst(body) ==
    /\ CostLine(body) # 0
    /\ CostLine(body) = Leftmost(TotalHits(body, StrictKeywords))

\* C16 as stated: a record `function` accepts is accepted by
\* extract_uber_data with the same cost and currency, and what `function`
\* returns for a list is what extract_uber_data returns for it with some
\* entries left out.
C16_Original ==
    /\ StrictAccepted => LenientAccepts(emails[idx], LastCost, LastCurrency)
    /\ (mode = "function" /\ pc = "returned") =>
          IsSubSequence(OutputPairs, LenientPairs(emails))

\* C16 amended: a record `function` accepts whose first keyword-anchored
\* cost line is a 'Totalt' line is accepted by extract_uber_data with the
\* same cost and currency; for a list of such records what `function`
\* returns is what extract_uber_data returns with some entries left out.
\* When an 'Avbokningsavgift' cost line stands before the first 'Totalt'
\* cost line, extract_uber_data reads the fee and not the total.
C16_StrictWithinLenient ==
    /\ (StrictAccepted /\ TotalLineFirst(BodyOf(emails[idx]))) =>
          LenientAccepts(emails[idx], LastCost, LastCurrency)
    /\ (/\ mode = "function"
         /\ pc = "returned"
         /\ \A i \in DOMAIN emails :
                HasTextBody(emails[i]) /\ StrictCost(BodyOf(emails[i])).cost # NoneCost
                    => TotalLineFirst(BodyOf(emails[i])))
          => IsSubSequence(OutputPairs, LenientPairs(emails))

\* C16 witness: of two records `function` kept the second only, and
\* extract_uber_data keeps both, the second with the same cost and currency.
C16_Witness ==
    /\ mode = "function"
    /\ pc = "returned"
    /\ emails = <<Record("dict", LooseAmount), Record("dict", FullReceiptComma)>>
    /\ OutputPairs = << <<<<12345, 2>>, <<"k","r">>>> >>
    /\ LenientPairs(emails)
          = << <<<<99, 0>>, <<"k","r">>>>, <<<<12345, 2>>, <<"k","r">>>> >>

====
